---- MODULE Spec2Model ----
(***************************************************************************)
(* Model of src/app.js (the slug-based revision, lines 288-618): an        *)
(* Express blog CMS whose handlers issue sequential remote calls to a      *)
(* record store (table "blogs") and an object store (bucket "blog-files"). *)
(* Strings are sequences of one-character strings.  A handler is split at  *)
(* each `await`: one action is the remote call's effect together with the  *)
(* synchronous code that runs until the next remote call is issued.        *)
(* The post's `description` is passed through unread by every handler and  *)
(* is left out of the records; GET / (the public list) only reads.         *)
(* The table has no constraint of its own in this repository: insert and   *)
(* update store what the handler sends.                                    *)
(***************************************************************************)
EXTENDS Integers, Sequences, FiniteSets, TLC

VARIABLES store, nextId, bucket, now, isAuthenticated, req, budget, faults,
          slugIn, slugOut

vars == <<store, nextId, bucket, now, isAuthenticated, req, budget, faults,
          slugIn, slugOut>>

(* ------------------------------ bounds -------------------------------- *)
MaxLen == 3
MaxPosts == 2
MaxTicks == 1
Epoch == 10
MaxRequests == 3
MaxSeqRequests == 4

(* ------------------------------ strings ------------------------------- *)
Letters == {"a", "A"}
Digits == {"0", "1", "2", "3", "4", "5", "6", "7", "8", "9"}
Whitespace == {" "}
WordChars == Letters \cup Digits \cup {"_"}
Alphabet == {"a", "A", "1", " ", "-", "!", "_"}

toLowerCase(s) == [i \in 1..Len(s) |-> IF s[i] = "A" THEN "a" ELSE s[i]]

RemoveSpecial(s) ==
  SelectSeq(s, LAMBDA c : c \in WordChars \cup Whitespace \cup {"-"})

RECURSIVE ReplaceRuns(_, _, _)
ReplaceRuns(s, S, c) ==
  IF s = <<>> THEN <<>>
  ELSE IF Head(s) \in S
       THEN IF Len(s) > 1 /\ s[2] \in S
            THEN ReplaceRuns(Tail(s), S, c)
            ELSE <<c>> \o ReplaceRuns(Tail(s), S, c)
       ELSE <<Head(s)>> \o ReplaceRuns(Tail(s), S, c)

RECURSIVE trimStart(_)
trimStart(s) ==
  IF s # <<>> /\ Head(s) \in Whitespace THEN trimStart(Tail(s)) ELSE s

RECURSIVE trimEnd(_)
trimEnd(s) ==
  IF s # <<>> /\ s[Len(s)] \in Whitespace
  THEN trimEnd(SubSeq(s, 1, Len(s) - 1)) ELSE s

trim(s) == trimEnd(trimStart(s))

generateSlug(title) ==
  trim(ReplaceRuns(ReplaceRuns(RemoveSpecial(toLowerCase(title)),
                               Whitespace, "-"), {"-"}, "-"))

DigitOf(d) ==
  CASE d = 0 -> "0" [] d = 1 -> "1" [] d = 2 -> "2" [] d = 3 -> "3"
    [] d = 4 -> "4" [] d = 5 -> "5" [] d = 6 -> "6" [] d = 7 -> "7"
    [] d = 8 -> "8" [] d = 9 -> "9"

RECURSIVE NumToString(_)
NumToString(n) ==
  IF n < 10 THEN <<DigitOf(n)>>
  ELSE NumToString(n \div 10) \o <<DigitOf(n % 10)>>

WithSuffix(slug, n) == slug \o <<"-">> \o NumToString(n)

RECURSIVE LastSegment(_)
LastSegment(url) ==
  IF \E i \in 1..Len(url) : url[i] = "/"
  THEN LastSegment(Tail(url))
  ELSE url

extname == <<".", "t">>
BucketBase == <<"b">>
getPublicUrl(filename) == BucketBase \o <<"/">> \o filename

(* --------------------------- configuration ---------------------------- *)
ADMIN_USERNAME == "admin"
ADMIN_PASSWORD == "secret"
Usernames == {"admin", "guest"}
Passwords == {"secret", "wrong"}

(* request inputs *)
Titles == {<<"a">>, <<"a", " ", "1">>}
MissingSlug == <<"z">>
SlugParams == {p.slug : p \in store} \cup {MissingSlug}

(* ------------------------------ requests ------------------------------ *)
Idle ==
  [pc |-> "idle", route |-> "none", authed |-> FALSE, oldSlug |-> <<>>,
   title |-> <<>>, file |-> FALSE, remove_file |-> FALSE, newSlug |-> <<>>,
   counter |-> 0, currentBlog |-> <<>>, fileUrl |-> <<>>, filename |-> <<>>,
   resp |-> "none", failed |-> FALSE, calls |-> <<>>]

(* history of one request: the mutating calls it issued, and whether any of
   its remote calls failed *)
Call(op, arg, ok) == [op |-> op, arg |-> arg, ok |-> ok]
Issued(q, op, arg, ok) ==
  [q EXCEPT !.calls = Append(@, Call(op, arg, ok)), !.failed = @ \/ ~ok]
Read(q, ok) == [q EXCEPT !.failed = @ \/ ~ok]

(* .single(): data is the row when the call succeeds and exactly one row
   matches, and null otherwise (no row, several rows, or a failed call) *)
Single(ok, rows) == IF ok /\ Cardinality(rows) = 1 THEN rows ELSE {}

requireAuth_Open(session) == TRUE

requireAuth(session) == session

Set(r, rec) == req' = [req EXCEPT ![r] = rec]

Finish(r, rec, response) ==
  Set(r, [rec EXCEPT !.pc = "done", !.resp = response])

Begin(r, route) ==
  [Idle EXCEPT !.route = route, !.authed = isAuthenticated]

(* the environment issues a bounded number of requests in one run *)
Issue == budget > 0 /\ budget' = budget - 1

(* the outcomes of a remote call: it succeeds, or (when the run has faults)
   it fails and returns { data: null, error } *)
Outcomes == IF faults THEN BOOLEAN ELSE {TRUE}

Slots == DOMAIN req

InFlightCreates ==
  Cardinality({r \in Slots : req[r].route = "create"
                              /\ req[r].pc \notin {"idle", "done"}})

InitWith(slots, requests, faulty) ==
  /\ store = {}
  /\ nextId = 1
  /\ bucket = {}
  /\ now = Epoch
  /\ isAuthenticated = FALSE
  /\ req = [r \in slots |-> Idle]
  /\ budget = requests
  /\ faults = faulty
  /\ slugIn = <<>>
  /\ slugOut = <<>>

(* ------------------------- session and clock -------------------------- *)
Login(username, password) ==
  /\ Issue
  /\ isAuthenticated' =
       IF username = ADMIN_USERNAME /\ password = ADMIN_PASSWORD
       THEN TRUE ELSE isAuthenticated
  /\ UNCHANGED <<store, nextId, bucket, now, req, faults, slugIn, slugOut>>

Logout ==
  /\ Issue
  /\ isAuthenticated' = FALSE
  /\ UNCHANGED <<store, nextId, bucket, now, req, faults, slugIn, slugOut>>

Tick ==
  /\ now < Epoch + MaxTicks
  /\ now' = now + 1
  /\ UNCHANGED <<store, nextId, bucket, isAuthenticated, req, budget, faults,
                 slugIn, slugOut>>

Respond(r) ==
  /\ req[r].pc = "done"
  /\ Set(r, Idle)
  /\ UNCHANGED <<store, nextId, bucket, now, isAuthenticated, budget, faults,
                 slugIn, slugOut>>

(* ------------------------------ read routes --------------------------- *)
BlogPage(slug, ok) ==
  LET blog == Single(ok, {p \in store : p.slug = slug})
  IN  IF blog = {} THEN "redirect:/" ELSE "render:blog"

GetBlog(r, slug, ok) ==
  /\ req[r].pc = "idle"
  /\ Issue
  /\ Finish(r, Read([Begin(r, "blog") EXCEPT !.oldSlug = slug], ok),
            BlogPage(slug, ok))
  /\ UNCHANGED <<store, nextId, bucket, now, isAuthenticated, faults, slugIn,
                 slugOut>>

GetAdmin(r, ok) ==
  /\ req[r].pc = "idle"
  /\ Issue
  /\ LET b == Begin(r, "admin") IN
     IF requireAuth(isAuthenticated)
     THEN Finish(r, Read(b, ok), "render:admin")
     ELSE Finish(r, b, "redirect:/login")
  /\ UNCHANGED <<store, nextId, bucket, now, isAuthenticated, faults, slugIn,
                 slugOut>>

GetEditForm(r, slug, ok) ==
  /\ req[r].pc = "idle"
  /\ Issue
  /\ LET b == [Begin(r, "editform") EXCEPT !.oldSlug = slug]
         blog == Single(ok, {p \in store : p.slug = slug})
     IN  IF requireAuth(isAuthenticated)
         THEN Finish(r, Read(b, ok),
                     IF blog = {} THEN "redirect:/admin" ELSE "render:edit")
         ELSE Finish(r, b, "redirect:/login")
  /\ UNCHANGED <<store, nextId, bucket, now, isAuthenticated, faults, slugIn,
                 slugOut>>

(* --------------------------- POST /admin/blog ------------------------- *)
StartCreate(r, title, file) ==
  /\ req[r].pc = "idle"
  /\ Issue
  /\ nextId + InFlightCreates <= MaxPosts
  /\ LET b == [Begin(r, "create") EXCEPT !.title = title, !.file = file] IN
     IF requireAuth(isAuthenticated)
     THEN Set(r, [b EXCEPT !.pc = "c_probe",
                           !.newSlug = generateSlug(title), !.counter = 1])
     ELSE Finish(r, b, "redirect:/login")
  /\ UNCHANGED <<store, nextId, bucket, now, isAuthenticated, faults, slugIn,
                 slugOut>>

CreateProbe(r, ok) ==
  /\ req[r].pc = "c_probe"
  /\ LET q == req[r]
         data == Single(ok, {p \in store : p.slug = q.newSlug})
         c == Read(q, ok)
     IN  IF data = {}
         THEN IF q.file
              THEN Set(r, [c EXCEPT !.pc = "c_upload",
                             !.filename = NumToString(now) \o extname])
              ELSE Set(r, [c EXCEPT !.pc = "c_insert"])
         ELSE Set(r, [c EXCEPT
                        !.newSlug =
                          WithSuffix(generateSlug(q.title), q.counter),
                        !.counter = q.counter + 1])
  /\ UNCHANGED <<store, nextId, bucket, now, isAuthenticated, budget, faults,
                 slugIn, slugOut>>

(* upload() is called without `upsert`: a name already in the bucket is
   rejected, and the handler throws on uploadError *)
CreateUpload(r, ok) ==
  /\ req[r].pc = "c_upload"
  /\ LET q == req[r]
         done == ok /\ q.filename \notin bucket
         c == Issued(q, "upload", q.filename, done)
     IN  IF done
         THEN /\ bucket' = bucket \cup {q.filename}
              /\ Set(r, [c EXCEPT !.pc = "c_insert",
                                  !.fileUrl = getPublicUrl(q.filename)])
         ELSE /\ bucket' = bucket
              /\ Finish(r, c, "500")
  /\ UNCHANGED <<store, nextId, now, isAuthenticated, budget, faults, slugIn,
                 slugOut>>

CreateInsert(r, ok) ==
  /\ req[r].pc = "c_insert"
  /\ LET q == req[r]
         c == Issued(q, "insert", q.newSlug, ok)
     IN  IF ok
         THEN /\ store' = store \cup
                   {[id |-> nextId, title |-> q.title,
                     file_url |-> q.fileUrl, slug |-> q.newSlug]}
              /\ nextId' = nextId + 1
              /\ Finish(r, c, "redirect:/")
         ELSE /\ UNCHANGED <<store, nextId>>
              /\ Finish(r, c, "500")
  /\ UNCHANGED <<bucket, now, isAuthenticated, budget, faults, slugIn,
                 slugOut>>

(* ------------------------ POST /admin/edit/:slug ---------------------- *)
StartEdit(r, slug, title, file, remove_file) ==
  /\ req[r].pc = "idle"
  /\ Issue
  /\ LET b == [Begin(r, "edit") EXCEPT !.oldSlug = slug, !.title = title,
                 !.file = file, !.remove_file = remove_file] IN
     IF requireAuth(isAuthenticated)
     THEN Set(r, [b EXCEPT !.pc = "e_probe", !.newSlug = generateSlug(title)])
     ELSE Finish(r, b, "redirect:/login")
  /\ UNCHANGED <<store, nextId, bucket, now, isAuthenticated, faults, slugIn,
                 slugOut>>

EditProbe(r, ok) ==
  /\ req[r].pc = "e_probe"
  /\ LET q == req[r]
         existingPost ==
           Single(ok, {p \in store : p.slug = q.newSlug /\ p.slug # q.oldSlug})
     IN  Set(r, [Read(q, ok) EXCEPT
                   !.pc = "e_fetch",
                   !.newSlug = IF existingPost # {}
                               THEN WithSuffix(q.newSlug, now) ELSE @])
  /\ UNCHANGED <<store, nextId, bucket, now, isAuthenticated, budget, faults,
                 slugIn, slugOut>>

(* the upload branch of the edit handler, entered with the current fileUrl *)
EditUploadBranch(c, fileUrl) ==
  IF c.file
  THEN IF fileUrl # <<>>
       THEN [c EXCEPT !.pc = "e_remove_old", !.fileUrl = fileUrl]
       ELSE [c EXCEPT !.pc = "e_upload", !.fileUrl = fileUrl,
                      !.filename = NumToString(now) \o extname]
  ELSE [c EXCEPT !.pc = "e_update", !.fileUrl = fileUrl]

EditFetch(r, ok) ==
  /\ req[r].pc = "e_fetch"
  /\ LET q == req[r]
         currentBlog == Single(ok, {p \in store : p.slug = q.oldSlug})
         c == Read(q, ok)
     IN  IF currentBlog = {}
         THEN Finish(r, c, "500")
         ELSE LET fileUrl == (CHOOSE p \in currentBlog : TRUE).file_url
                  d == [c EXCEPT !.currentBlog = fileUrl]
              IN  IF q.remove_file /\ fileUrl # <<>>
                  THEN Set(r, [d EXCEPT !.pc = "e_remove", !.fileUrl = fileUrl])
                  ELSE Set(r, EditUploadBranch(d, fileUrl))
  /\ UNCHANGED <<store, nextId, bucket, now, isAuthenticated, budget, faults,
                 slugIn, slugOut>>

RemoveObject(ok, name) == bucket' = IF ok THEN bucket \ {name} ELSE bucket

fileUrlAfterRemoval_Kept(fileUrl) == fileUrl

fileUrlAfterRemoval(fileUrl) == <<>>

EditRemove(r, ok) ==
  /\ req[r].pc = "e_remove"
  /\ LET q == req[r]
         oldFileName == LastSegment(q.fileUrl)
         c == Issued(q, "remove", oldFileName, ok)
     IN  /\ RemoveObject(ok, oldFileName)
         /\ Set(r, EditUploadBranch(c, fileUrlAfterRemoval(q.fileUrl)))
  /\ UNCHANGED <<store, nextId, now, isAuthenticated, budget, faults, slugIn,
                 slugOut>>

EditRemoveOld(r, ok) ==
  /\ req[r].pc = "e_remove_old"
  /\ LET q == req[r]
         oldFileName == LastSegment(q.fileUrl)
     IN  /\ RemoveObject(ok, oldFileName)
         /\ Set(r, [Issued(q, "remove", oldFileName, ok) EXCEPT
                      !.pc = "e_upload",
                      !.filename = NumToString(now) \o extname])
  /\ UNCHANGED <<store, nextId, now, isAuthenticated, budget, faults, slugIn,
                 slugOut>>

EditUpload(r, ok) ==
  /\ req[r].pc = "e_upload"
  /\ LET q == req[r]
         done == ok /\ q.filename \notin bucket
         c == Issued(q, "upload", q.filename, done)
     IN  IF done
         THEN /\ bucket' = bucket \cup {q.filename}
              /\ Set(r, [c EXCEPT !.pc = "e_update",
                                  !.fileUrl = getPublicUrl(q.filename)])
         ELSE /\ bucket' = bucket
              /\ Finish(r, c, "500")
  /\ UNCHANGED <<store, nextId, now, isAuthenticated, budget, faults, slugIn,
                 slugOut>>

UpdateRows(rows, oldSlug, q) ==
  {IF p.slug = oldSlug
   THEN [p EXCEPT !.title = q.title, !.file_url = q.fileUrl, !.slug = q.newSlug]
   ELSE p : p \in rows}

EditUpdate(r, ok) ==
  /\ req[r].pc = "e_update"
  /\ LET q == req[r]
         c == Issued(q, "update", q.oldSlug, ok)
     IN  IF ok
         THEN /\ store' = UpdateRows(store, q.oldSlug, q)
              /\ Finish(r, c, "redirect:/admin")
         ELSE /\ store' = store
              /\ Finish(r, c, "500")
  /\ UNCHANGED <<nextId, bucket, now, isAuthenticated, budget, faults,
                 slugIn, slugOut>>

(* ----------------------- POST /admin/delete/:slug --------------------- *)
StartDelete(r, slug) ==
  /\ req[r].pc = "idle"
  /\ Issue
  /\ LET b == [Begin(r, "delete") EXCEPT !.oldSlug = slug] IN
     IF requireAuth(isAuthenticated)
     THEN Set(r, [b EXCEPT !.pc = "d_fetch"])
     ELSE Finish(r, b, "redirect:/login")
  /\ UNCHANGED <<store, nextId, bucket, now, isAuthenticated, faults, slugIn,
                 slugOut>>

DeleteFetch(r, ok) ==
  /\ req[r].pc = "d_fetch"
  /\ LET q == req[r]
         blog == Single(ok, {p \in store : p.slug = q.oldSlug})
         fileUrl == IF blog = {} THEN <<>>
                    ELSE (CHOOSE p \in blog : TRUE).file_url
     IN  Set(r, [Read(q, ok) EXCEPT
                   !.pc = IF fileUrl # <<>> THEN "d_remove" ELSE "d_delete",
                   !.currentBlog = fileUrl, !.fileUrl = fileUrl])
  /\ UNCHANGED <<store, nextId, bucket, now, isAuthenticated, budget, faults,
                 slugIn, slugOut>>

DeleteRemove(r, ok) ==
  /\ req[r].pc = "d_remove"
  /\ LET q == req[r]
         fileName == LastSegment(q.fileUrl)
     IN  /\ RemoveObject(ok, fileName)
         /\ Set(r, [Issued(q, "remove", fileName, ok) EXCEPT
                      !.pc = "d_delete"])
  /\ UNCHANGED <<store, nextId, now, isAuthenticated, budget, faults, slugIn,
                 slugOut>>

DeleteRow(r, ok) ==
  /\ req[r].pc = "d_delete"
  /\ LET q == req[r]
         c == Issued(q, "delete", q.oldSlug, ok)
     IN  IF ok
         THEN /\ store' = {p \in store : p.slug # q.oldSlug}
              /\ Finish(r, c, "redirect:/admin")
         ELSE /\ store' = store
              /\ Finish(r, c, "500")
  /\ UNCHANGED <<nextId, bucket, now, isAuthenticated, budget, faults,
                 slugIn, slugOut>>

(* --------------------------- specifications --------------------------- *)
Start ==
  \/ \E r \in Slots, t \in Titles, f \in BOOLEAN : StartCreate(r, t, f)
  \/ \E r \in Slots, s \in SlugParams, t \in Titles, f \in BOOLEAN,
        x \in BOOLEAN : StartEdit(r, s, t, f, x)
  \/ \E r \in Slots, s \in SlugParams : StartDelete(r, s)

Reads ==
  \/ \E r \in Slots, s \in SlugParams, ok \in Outcomes : GetBlog(r, s, ok)
  \/ \E r \in Slots, ok \in Outcomes : GetAdmin(r, ok)
  \/ \E r \in Slots, s \in SlugParams, ok \in Outcomes : GetEditForm(r, s, ok)

Step ==
  \/ \E r \in Slots, ok \in Outcomes : CreateProbe(r, ok)
  \/ \E r \in Slots, ok \in Outcomes : CreateUpload(r, ok)
  \/ \E r \in Slots, ok \in Outcomes : CreateInsert(r, ok)
  \/ \E r \in Slots, ok \in Outcomes : EditProbe(r, ok)
  \/ \E r \in Slots, ok \in Outcomes : EditFetch(r, ok)
  \/ \E r \in Slots, ok \in Outcomes : EditRemove(r, ok)
  \/ \E r \in Slots, ok \in Outcomes : EditRemoveOld(r, ok)
  \/ \E r \in Slots, ok \in Outcomes : EditUpload(r, ok)
  \/ \E r \in Slots, ok \in Outcomes : EditUpdate(r, ok)
  \/ \E r \in Slots, ok \in Outcomes : DeleteFetch(r, ok)
  \/ \E r \in Slots, ok \in Outcomes : DeleteRemove(r, ok)
  \/ \E r \in Slots, ok \in Outcomes : DeleteRow(r, ok)
  \/ \E r \in Slots : Respond(r)

Session ==
  \/ \E u \in Usernames, p \in Passwords : Login(u, p)
  \/ Logout
  \/ Tick

Next == Session \/ Start \/ Reads \/ Step

(* concurrent requests, remote calls may fail *)
Init == InitWith({1, 2}, MaxRequests, TRUE)
Spec == Init /\ [][Next]_vars

(* one request at a time, remote calls may fail *)
SeqInit == InitWith({1}, MaxSeqRequests, TRUE)
SeqSpec == SeqInit /\ [][Next]_vars

(* one request at a time, every remote call succeeds *)
SeqOkInit == InitWith({1}, MaxSeqRequests, FALSE)
SeqOkSpec == SeqOkInit /\ [][Next]_vars

(* concurrent requests, every remote call succeeds *)
RaceInit == InitWith({1, 2}, MaxRequests, FALSE)
RaceSpec == RaceInit /\ [][Next]_vars

(* generateSlug applied to every title of at most MaxLen characters *)
RECURSIVE SeqsUpTo(_, _)
SeqsUpTo(S, n) ==
  IF n = 0 THEN {<<>>}
  ELSE LET shorter == SeqsUpTo(S, n - 1)
       IN  shorter \cup {Append(s, c) : s \in shorter, c \in S}

SlugInit ==
  /\ store = {}
  /\ nextId = 1
  /\ bucket = {}
  /\ now = Epoch
  /\ isAuthenticated = FALSE
  /\ req = [r \in {1} |-> Idle]
  /\ budget = 0
  /\ faults = FALSE
  /\ slugIn \in SeqsUpTo(Alphabet, MaxLen)
  /\ slugOut = <<"?">>

Derive ==
  /\ slugOut = <<"?">>
  /\ slugOut' = generateSlug(slugIn)
  /\ UNCHANGED <<store, nextId, bucket, now, isAuthenticated, req, budget,
                 faults, slugIn>>

SlugSpec == SlugInit /\ [][Derive]_vars

(* ------------------------------- claims ------------------------------- *)
AdminRoutes == {"admin", "editform", "create", "edit", "delete"}
WriteRoutes == {"create", "edit", "delete"}

(* C1: in every reachable state no two post records hold the same slug,
   also when two creates of one title overlap. *)
C1_UniqueSlugs ==
  \A p \in store, q \in store : p.slug = q.slug => p = q

(* an admin-scoped request that met an unauthenticated session has ended
   with the redirect to the login form and has issued no remote call *)
C2_StateUnauthenticated ==
  \A r \in Slots :
    (req[r].route \in AdminRoutes /\ ~req[r].authed) =>
      /\ req[r].pc = "done"
      /\ req[r].resp = "redirect:/login"
      /\ req[r].calls = <<>>
      /\ ~req[r].failed

(* a step that changes the record store or the bucket is a mutating call of
   a write handler whose request passed the authentication check *)
C2_StepAuthenticated ==
  (store' # store \/ bucket' # bucket) =>
    \E r \in Slots :
      /\ req[r].authed
      /\ req[r].route \in WriteRoutes
      /\ Len(req'[r].calls) = Len(req[r].calls) + 1

(* C2: a request to an admin-scoped route (admin list, edit form, submit
   edit, submit create, delete) made while the session is not authenticated
   is redirected to the login form and performs no insert, update or delete
   on the record store and no upload or remove on the object store. *)
C2_UnauthenticatedNoMutation ==
  [](C2_StateUnauthenticated) /\ [][C2_StepAuthenticated]_vars

(* a write request that met an unauthenticated session was redirected *)
C2_Witness ==
  \E r \in Slots :
    /\ req[r].route \in WriteRoutes
    /\ ~req[r].authed
    /\ req[r].resp = "redirect:/login"

(* C3: with no overlapping requests, the first post whose title derives to
   base slug b is stored as b, and a later creation of that base slug is
   stored as b-k for the smallest positive k that no existing post holds. *)
C3_SequentialCounterSlugs ==
  \A r \in Slots :
    (req[r].route = "create" /\ req[r].pc = "done"
       /\ req[r].resp = "redirect:/") =>
      LET b == generateSlug(req[r].title)
          new == CHOOSE p \in store : p.id = nextId - 1
          others == store \ {new}
          held(s) == \E p \in others : p.slug = s
          first == ~\E p \in others : generateSlug(p.title) = b
      IN  IF first
          THEN new.slug = b
          ELSE \E k \in 1..(MaxPosts + 1) :
                 /\ new.slug = WithSuffix(b, k)
                 /\ ~held(new.slug)
                 /\ \A j \in 1..(k - 1) : held(WithSuffix(b, j))

(* s is b, a hyphen and a non-empty run of digits *)
HasTimestampForm(s, b) ==
  /\ Len(s) > Len(b) + 1
  /\ SubSeq(s, 1, Len(b)) = b
  /\ s[Len(b) + 1] = "-"
  /\ \A i \in (Len(b) + 2)..Len(s) : s[i] \in Digits

(* the step in which the edit of request r commits its update *)
EditCommits(r) ==
  /\ req[r].pc = "e_update"
  /\ req'[r].pc = "done"
  /\ req'[r].resp = "redirect:/admin"

(* C4: an edit of post P to a title whose base slug b is held by a different
   post Q stores P under b-<numeric timestamp>, different from Q's slug, and
   leaves Q's record unchanged. *)
C4_EditCollisionTimestamp ==
  [][\A r \in Slots : EditCommits(r) =>
       \A P \in store, Q \in store :
         (P.slug = req[r].oldSlug /\ Q.id # P.id
            /\ Q.slug = generateSlug(req[r].title)) =>
           /\ Q \in store'
           /\ \E P2 \in store' :
                /\ P2.id = P.id
                /\ HasTimestampForm(P2.slug, generateSlug(req[r].title))
                /\ P2.slug # Q.slug]_vars

(* C5: an edit that leaves the title unchanged leaves the slug unchanged,
   also for a post stored under a counter or timestamp suffix. *)
C5_UnchangedTitleKeepsSlug ==
  [][\A r \in Slots : EditCommits(r) =>
       \A P \in store :
         (P.slug = req[r].oldSlug /\ P.title = req[r].title) =>
           \E P2 \in store' : P2.id = P.id /\ P2.slug = P.slug]_vars

(* C6: after a delete of a post that has an attached file, the object is not
   in the bucket, no post references it, and fetching the old slug yields
   not-found. *)
C6_DeleteRemovesFile ==
  \A r \in Slots :
    (req[r].route = "delete" /\ req[r].pc = "done"
       /\ req[r].resp = "redirect:/admin" /\ req[r].currentBlog # <<>>) =>
      /\ LastSegment(req[r].currentBlog) \notin bucket
      /\ \A p \in store : p.file_url # req[r].currentBlog
      /\ BlogPage(req[r].oldSlug, TRUE) = "redirect:/"

RemoveCalls(r) == SelectSeq(req[r].calls, LAMBDA c : c.op = "remove")

RemoveFileEdit(q) ==
  q.route = "edit" /\ q.remove_file /\ ~q.file /\ q.currentBlog # <<>>

(* such an edit, once answered, has issued exactly one remove call, for the
   object the post referenced; answered with the success redirect, it holds
   no file URL *)
C7_StateOneRemove ==
  \A r \in Slots :
    (RemoveFileEdit(req[r]) /\ req[r].pc = "done") =>
      /\ Len(RemoveCalls(r)) = 1
      /\ RemoveCalls(r)[1].arg = LastSegment(req[r].currentBlog)
      /\ req[r].resp = "redirect:/admin" => req[r].fileUrl = <<>>

(* the update of such an edit stores file_url as absent on the post *)
C7_StepClearsFileUrl ==
  \A r \in Slots :
    (RemoveFileEdit(req[r]) /\ EditCommits(r)) =>
      \A p \in store :
        p.slug = req[r].oldSlug =>
          \E p2 \in store' : p2.id = p.id /\ p2.file_url = <<>>

(* C7: a submit-edit request with the remove-file flag set and no new file,
   on a post that has an attached file, stores file_url as absent on the
   post and issues exactly one remove call to the object store, for the
   previously referenced object. *)
C7_RemoveFlagClearsFile ==
  [](C7_StateOneRemove) /\ [][C7_StepClearsFileUrl]_vars

(* such an edit succeeded: the post holds no file and the bucket is empty *)
C7_Witness ==
  \E r \in Slots :
    /\ RemoveFileEdit(req[r])
    /\ req[r].pc = "done"
    /\ req[r].resp = "redirect:/admin"
    /\ \E p \in store : p.title = req[r].title /\ p.file_url = <<>>
    /\ bucket = {}

(* C8: a write handler one of whose remote calls failed answers with the
   generic server error, not with the success redirect. *)
C8_FailureGivesServerError ==
  \A r \in Slots :
    (req[r].route \in WriteRoutes /\ req[r].pc = "done" /\ req[r].failed) =>
      req[r].resp = "500"

(* C9: generateSlug returns a lower-case slug with no whitespace, no run of
   hyphens, and no hyphen at its start or end. *)
C9_SlugWellFormed ==
  slugOut # <<"?">> =>
    /\ \A i \in 1..Len(slugOut) : slugOut[i] \notin {"A"} \cup Whitespace
    /\ \A i \in 1..(Len(slugOut) - 1) :
         ~(slugOut[i] = "-" /\ slugOut[i + 1] = "-")
    /\ slugOut # <<>> => (Head(slugOut) # "-" /\ slugOut[Len(slugOut)] # "-")

Quiescent == \A r \in Slots : req[r].pc \in {"idle", "done"}

(* C10: whenever no handler is running, every post whose file_url is present
   references an object that is in the bucket. *)
C10_FileUrlObjectExists ==
  Quiescent =>
    \A p \in store :
      p.file_url # <<>> => LastSegment(p.file_url) \in bucket

====
